---- MODULE Spec2Model ----
(***************************************************************************)
(* The three email-existence validators of the repository:                *)
(*   colgate    - src/colgate_validator.py (Microsoft login, first step)  *)
(*   google     - src/email_validator.py (Google sign-in, two steps)      *)
(*   pepperdine - src/pepperdine/pepp_directory_validator.py (reset form) *)
(* Each is a batch job: open a browser, read candidate rows from a CSV,   *)
(* probe every row that is not skipped, append the rows classified Valid  *)
(* to an output CSV.  The browser and the web page are the environment:   *)
(* what they answer to one probe is an "env" record, chosen freely.       *)
(***************************************************************************)
EXTENDS Integers, Sequences, FiniteSets, TLC

VARIABLES validator, pc, run, rowsLeft, limit, driver, seen_emails,
          valid_emails, assigned_people, processed, output, cur, credited, env,
          cooldown_n, restart_n, pauses, exitCode, report, fault, sessions,
          files, mi, best_by_name, merged

\* The state of merge_colgate_verified.py, a separate script.
mergeVars == <<files, mi, best_by_name, merged>>

vars == <<validator, pc, run, rowsLeft, limit, driver, seen_emails,
          valid_emails, assigned_people, processed, output, cur, credited, env,
          cooldown_n, restart_n, pauses, exitCode, report, fault, sessions,
          mergeVars>>

\* Rows read from input files over all the runs of one behaviour.
MaxRows == 2
\* Runs of the same validator against the same output file.
MaxRuns == 2
\* Rows in the files that merge_colgate_verified.py reads.
MaxMergeRows == 3

Validators == {"colgate", "google", "pepperdine"}

---------------------------------------------------------------------------
(* Strings are sequences of one-character tokens.  "E'" stands for an     *)
(* accented upper-case E, which unidecode transliterates to "E".          *)

\* str.lower(), character by character
LowerCh(c) == CASE c = "A" -> "a" [] c = "B" -> "b" [] c = "E" -> "e"
                [] c = "E'" -> "e'" [] OTHER -> c

lower(s) == [i \in 1..Len(s) |-> LowerCh(s[i])]

\* unidecode(), character by character
UnidecodeCh(c) == CASE c = "E'" -> "E" [] c = "e'" -> "e" [] OTHER -> c

unidecode(s) == [i \in 1..Len(s) |-> UnidecodeCh(s[i])]

RECURSIVE lstrip(_)
lstrip(s) == IF s # <<>> /\ Head(s) = " " THEN lstrip(Tail(s)) ELSE s

RECURSIVE rstrip(_)
rstrip(s) == IF s # <<>> /\ s[Len(s)] = " "
             THEN rstrip(SubSeq(s, 1, Len(s) - 1)) ELSE s

\* str.strip()
strip(s) == rstrip(lstrip(s))

\* The email cells an input file may hold: empty, plain, a case variant, a
\* padded variant, and a second address.
Emails == {<<>>, <<"a">>, <<"A">>, <<"a", " ">>, <<"b">>}

\* Two spellings of one name: plain, and accented upper case with padding.
Names == {<<"e">>, <<" ", "E'">>}

Usernames == {<<"u">>, <<"v">>}

\* A row of the input CSV, as csv.DictReader yields it.  Only the Google
\* input carries a username column.
Rows(v) == [full_name : Names,
            username : IF v = "google" THEN Usernames ELSE {<<>>},
            email : Emails]

NoRow == [full_name |-> <<>>, username |-> <<>>, email |-> <<>>]

---------------------------------------------------------------------------
(* The output file: a sequence of lines, each line a sequence of cells.   *)

\* fieldnames of the csv.DictWriter of write_valid
Fieldnames(v) == IF v = "google"
                 THEN << <<"full_name">>, <<"username">>, <<"email">> >>
                 ELSE << <<"full_name">>, <<"email">> >>

\* the dict handed to writer.writerow
RowOut(v, row) == IF v = "google"
                  THEN <<row.full_name, row.username, row.email>>
                  ELSE <<row.full_name, row.email>>

\* Faulty variant: the header is written on every call.
write_valid_mut_header(v, out, row) == out \o <<Fieldnames(v), RowOut(v, row)>>

\* Faulty variant: the row is kept in a buffer and not written.
write_valid_mut_buffered(v, out, row) == out

\* write_valid: open in append mode, header if tell() == 0, one row, close
write_valid(v, out, row) ==
    out \o (IF Len(out) = 0 THEN <<Fieldnames(v)>> ELSE <<>>)
        \o <<RowOut(v, row)>>

\* csv.DictReader over a file: the first line names the fields, every other
\* line is a record read through those names.
DictReader(out) ==
    IF out = <<>> THEN <<>>
    ELSE [i \in 1..(Len(out) - 1) |-> [fields |-> Head(out), cells |-> out[i + 1]]]

\* row.get(key, "") or ""
get(rec, key) ==
    IF \E i \in 1..Len(rec.fields) : rec.fields[i] = key /\ i <= Len(rec.cells)
    THEN rec.cells[CHOOSE i \in 1..Len(rec.fields) :
                       rec.fields[i] = key /\ i <= Len(rec.cells)]
    ELSE <<>>

Range(s) == {s[i] : i \in 1..Len(s)}

\* normalize_person_key
normalize_person_key(full_name, username) ==
    <<lower(strip(unidecode(full_name))), lower(strip(username))>>

\* The already-valid set a run starts with.
load_valid_emails(v, out) ==
    CASE v = "colgate" ->
           {lower(strip(get(r, <<"email">>))) : r \in Range(DictReader(out))} \ {<<>>}
      [] v = "google" ->
           {strip(get(r, <<"email">>)) : r \in Range(DictReader(out))}
      [] v = "pepperdine" -> {}

\* Faulty variant: the set is not seeded from the output file.
load_assigned_people_mut_unseeded(v, out) == {}

\* The assigned-people set a run starts with (Google only).
load_assigned_people(v, out) ==
    IF v = "google"
    THEN {normalize_person_key(get(r, <<"full_name">>), get(r, <<"username">>)) :
             r \in Range(DictReader(out))}
    ELSE {}

---------------------------------------------------------------------------
(* What the browser and the page answer during one probe.  A field that   *)
(* the probe never reaches keeps a fixed default, so that two env records *)
(* differ only where the code can tell them apart.                        *)

Verdicts == {"Valid", "Invalid", "Unknown"}

\* The visible result of a probe: a verdict, or "Raise" when an exception
\* leaves the probe function; pwd tells whether a wrong password was sent.
Result(verdict, pwd) == [verdict |-> verdict, pwd |-> pwd]

NoEnv == [kind |-> "none"]

\* --- Colgate / Microsoft ------------------------------------------------
\* Displayed, non-empty error texts in selector order; "hint" is a text
\* holding one of invalid_hints, "other" any other text.
ErrTexts == {<<>>} \cup {<<a>> : a \in {"hint", "other"}}
            \cup {<<a, b>> : a, b \in {"hint", "other"}}

ColgateEnv(atUser, recovered, input, submit, pw, errs) ==
    [kind |-> "colgate",
     atUser |-> atUser,         \* at_username_step on entry
     recovered |-> recovered,   \* the 8 s wait after go_back_to_username
     input |-> input,           \* locating the email input: found, timeout, error
     submit |-> submit,         \* clear, type, RETURN: ok, timeout, error
     pw |-> pw,                 \* #i0118 displayed
     errs |-> errs]

\* With atUser and recovered both false the page is stuck on another step
\* for the 8 s of the wait; what it shows later (the password field of the
\* previous account, a username step that comes too late) is in the env.
ColgateEnvs ==
    {ColgateEnv(FALSE, FALSE, "timeout", "timeout", FALSE, <<>>)}
    \cup {ColgateEnv(FALSE, FALSE, "found", "ok", p, t) :
             p \in BOOLEAN, t \in ErrTexts}
    \cup {ColgateEnv(a, TRUE, i, "timeout", FALSE, <<>>) :
             a \in BOOLEAN, i \in {"timeout", "error"}}
    \cup {ColgateEnv(a, TRUE, "found", s, FALSE, <<>>) :
             a \in BOOLEAN, s \in {"timeout", "error"}}
    \cup {ColgateEnv(a, TRUE, "found", "ok", p, t) :
             a \in BOOLEAN, p \in BOOLEAN, t \in ErrTexts}

\* The probe got as far as pressing RETURN on the typed email.
ColgateSubmitted(e) == e.recovered /\ e.input = "found" /\ e.submit = "ok"

\* find_username_error_text, lower-cased
find_username_error_text(e) == IF e.errs = <<>> THEN "" ELSE Head(e.errs)

\* any(h in err_text for h in invalid_hints)
has_invalid_hint(txt) == txt = "hint"

\* at_password_step of colgate_validator.py
ms_at_password_step(e) == e.pw

\* Faulty variant: the password step is tested before the error text.
enter_email_and_submit_mut_pwfirst(e) ==
    IF ~e.atUser /\ ~e.recovered THEN "Unknown"
    ELSE IF e.input = "timeout" THEN "Unknown"
    ELSE IF e.input = "error" THEN "Raise"
    ELSE IF e.submit = "timeout" THEN "Unknown"
    ELSE IF e.submit = "error" THEN "Raise"
    ELSE IF ms_at_password_step(e) THEN "Valid"
    ELSE IF has_invalid_hint(find_username_error_text(e)) THEN "Invalid"
    ELSE "Unknown"

\* Faulty variant: the ambiguous case falls through to Valid.
enter_email_and_submit_mut_valid(e) ==
    IF ~e.atUser /\ ~e.recovered THEN "Unknown"
    ELSE IF e.input = "timeout" THEN "Unknown"
    ELSE IF e.input = "error" THEN "Raise"
    ELSE IF e.submit = "timeout" THEN "Unknown"
    ELSE IF e.submit = "error" THEN "Raise"
    ELSE IF has_invalid_hint(find_username_error_text(e)) THEN "Invalid"
    ELSE "Valid"

\* Faulty variant: the password step is not tested.
enter_email_and_submit_mut_nopw(e) ==
    IF ~e.atUser /\ ~e.recovered THEN "Unknown"
    ELSE IF e.input = "timeout" THEN "Unknown"
    ELSE IF e.input = "error" THEN "Raise"
    ELSE IF e.submit = "timeout" THEN "Unknown"
    ELSE IF e.submit = "error" THEN "Raise"
    ELSE IF has_invalid_hint(find_username_error_text(e)) THEN "Invalid"
    ELSE "Unknown"

\* Faulty variant: the result of the wait after go_back_to_username is
\* ignored and the probe goes on.
enter_email_and_submit_mut_nowait(e) ==
    IF e.input = "timeout" THEN "Unknown"
    ELSE IF e.input = "error" THEN "Raise"
    ELSE IF e.submit = "timeout" THEN "Unknown"
    ELSE IF e.submit = "error" THEN "Raise"
    ELSE IF has_invalid_hint(find_username_error_text(e)) THEN "Invalid"
    ELSE IF ms_at_password_step(e) THEN "Valid"
    ELSE "Unknown"

\* enter_email_and_submit
enter_email_and_submit(e) ==
    IF ~e.atUser /\ ~e.recovered THEN "Unknown"        \* TimeoutException of the 8 s wait
    ELSE IF e.input = "timeout" THEN "Unknown"         \* no selector matched
    ELSE IF e.input = "error" THEN "Raise"             \* only TimeoutException is caught
    ELSE IF e.submit = "timeout" THEN "Unknown"
    ELSE IF e.submit = "error" THEN "Raise"
    ELSE IF has_invalid_hint(find_username_error_text(e)) THEN "Invalid"
    ELSE IF ms_at_password_step(e) THEN "Valid"
    ELSE "Unknown"

\* --- Google ---------------------------------------------------------------
GoogleEnv(nav, input, submit, obs, page, check) ==
    [kind |-> "google",
     nav |-> nav,               \* driver.get: ok, error
     input |-> input,           \* find_identifier_input: found, timeout, error
     submit |-> submit,         \* typing and RETURN: ok, timeout, notfound, error
     obs |-> obs,               \* reading current_url / page_source: ok, error
     saml |-> page.saml,        \* URL of a SAML / SSO redirect
     msg |-> page.msg,          \* what detect_invalid_by_message sees
     pwUrl |-> page.pwUrl,      \* URL of a password challenge
     pwInput |-> page.pwInput,  \* a password input in the page
     pwField |-> check.pwField, \* the password input, clickable: found, timeout, error
     wrong |-> check.wrong,     \* "Wrong password" or "Try again" afterwards
     enter |-> check.enter,     \* "Enter your password" afterwards
     msg2 |-> check.msg2]       \* detect_invalid_by_message afterwards

GooglePages == [saml : BOOLEAN, msg : {"none", "notfound", "entervalid"},
                pwUrl : BOOLEAN, pwInput : BOOLEAN]

NoGooglePage == [saml |-> FALSE, msg |-> "none", pwUrl |-> FALSE, pwInput |-> FALSE]

NoGoogleCheck == [pwField |-> "timeout", wrong |-> FALSE, enter |-> FALSE, msg2 |-> FALSE]

GoogleChecks ==
    {NoGoogleCheck, [NoGoogleCheck EXCEPT !.pwField = "error"]}
    \cup [pwField : {"found"}, wrong : BOOLEAN, enter : BOOLEAN, msg2 : BOOLEAN]

\* The pages on which the password check is entered.
GooglePasswordPage(p) == ~p.saml /\ p.msg = "none" /\ (p.pwUrl \/ p.pwInput)

GoogleEnvs ==
    {GoogleEnv("error", "timeout", "timeout", "error", NoGooglePage, NoGoogleCheck)}
    \cup {GoogleEnv("ok", i, "timeout", "error", NoGooglePage, NoGoogleCheck) :
             i \in {"timeout", "error"}}
    \cup {GoogleEnv("ok", "found", s, "error", NoGooglePage, NoGoogleCheck) :
             s \in {"ok", "timeout", "notfound", "error"}}
    \cup {GoogleEnv("ok", "found", "ok", "ok", p, NoGoogleCheck) :
             p \in {q \in GooglePages : ~GooglePasswordPage(q)}}
    \cup {GoogleEnv("ok", "found", "ok", "ok", p, c) :
             p \in {q \in GooglePages : GooglePasswordPage(q)}, c \in GoogleChecks}

\* The probe got as far as submitting the identifier and reading the page.
GoogleSubmitted(e) ==
    e.nav = "ok" /\ e.input = "found" /\ e.submit = "ok" /\ e.obs = "ok"

\* Faulty variant: a not-found message on the page wins over the redirect.
is_saml_flow_mut_nomsg(e) == e.saml /\ e.msg = "none"

\* is_saml_flow
is_saml_flow(e) == e.saml

\* Faulty variant: the "Couldn't find" tests are missing.
detect_invalid_by_message_mut_strings(e) == e.msg = "entervalid"

\* detect_invalid_by_message
detect_invalid_by_message(e) == e.msg # "none"

\* at_password_step of email_validator.py
at_password_step(e) == e.pwUrl \/ e.pwInput

\* submit_wrong_password_and_check
submit_wrong_password_and_check(e) ==
    IF e.pwField = "timeout" THEN Result("Unknown", FALSE)
    ELSE IF e.pwField = "error" THEN Result("Raise", FALSE)
    ELSE IF e.wrong \/ e.enter THEN Result("Valid", TRUE)
    ELSE IF e.msg2 THEN Result("Invalid", TRUE)
    ELSE Result("Unknown", TRUE)

\* validate_email_google.  The page is read at the first moment it shows a
\* signal, or when the 8 s wait expires, so both rounds of tests see e.
validate_email_google(e) ==
    IF e.nav = "error" THEN Result("Unknown", FALSE)
    ELSE IF e.input = "timeout" THEN Result("Unknown", FALSE)
    ELSE IF e.input = "error" THEN Result("Raise", FALSE)
    ELSE IF e.submit \in {"timeout", "notfound"} THEN Result("Unknown", FALSE)
    ELSE IF e.submit = "error" THEN Result("Raise", FALSE)
    ELSE IF e.obs = "error" THEN Result("Raise", FALSE)
    ELSE IF is_saml_flow(e) THEN Result("Unknown", FALSE)
    ELSE IF detect_invalid_by_message(e) THEN Result("Invalid", FALSE)
    ELSE IF at_password_step(e) THEN submit_wrong_password_and_check(e)
    ELSE Result("Unknown", FALSE)

\* --- Pepperdine -----------------------------------------------------------
\* The non-empty texts of the alert elements, in document order: a text with
\* an error hint, with a success hint, with both, or with neither.
AlertKinds == {"err", "succ", "both", "other"}

AlertTexts == {<<>>} \cup {<<a>> : a \in AlertKinds}
              \cup {<<a, b>> : a, b \in AlertKinds}

PepperdineEnv(reset, input, fill, obs, succ, err, alerts, after) ==
    [kind |-> "pepperdine",
     reset |-> reset,    \* ensure_on_reset_page: yes, no, error
     input |-> input,    \* locate_reset_input: found, none, error
     fill |-> fill,      \* set_input_value_fast: ok, error
     obs |-> obs,        \* reading page_source: ok, error
     succ |-> succ,      \* a success hint in the page text
     err |-> err,        \* an error hint in the page text
     alerts |-> alerts,
     after |-> after]    \* ensure_on_reset_page after the probe: ok, error

PepperdineEnvs ==
    {PepperdineEnv("error", "none", "error", "error", FALSE, FALSE, <<>>, "error")}
    \cup {PepperdineEnv("no", "none", "error", "error", FALSE, FALSE, <<>>, a) :
             a \in {"ok", "error"}}
    \cup {PepperdineEnv("yes", "none", "error", "error", FALSE, FALSE, <<>>, a) :
             a \in {"ok", "error"}}
    \cup {PepperdineEnv("yes", "error", "error", "error", FALSE, FALSE, <<>>, "error")}
    \cup {PepperdineEnv("yes", "found", f, "error", FALSE, FALSE, <<>>, "error") :
             f \in {"ok", "error"}}
    \cup {PepperdineEnv("yes", "found", "ok", "ok", s, r, t, a) :
             s \in BOOLEAN, r \in BOOLEAN, t \in AlertTexts, a \in {"ok", "error"}}

\* The probe got as far as submitting the email and reading the page.
PepperdineSubmitted(e) ==
    e.reset = "yes" /\ e.input = "found" /\ e.fill = "ok" /\ e.obs = "ok"

\* The loop over the alert elements: error hints are tested first.
RECURSIVE classify_alerts(_)
classify_alerts(alerts) ==
    IF alerts = <<>> THEN "Unknown"
    ELSE IF Head(alerts) \in {"err", "both"} THEN "Invalid"
    ELSE IF Head(alerts) = "succ" THEN "Valid"
    ELSE classify_alerts(Tail(alerts))

\* Faulty variant: the error hints of the page text are tested first.
submit_username_for_reset_mut_errfirst(e) ==
    IF e.reset = "no" THEN "Unknown"
    ELSE IF e.reset = "error" THEN "Raise"
    ELSE IF e.input = "none" THEN "Unknown"
    ELSE IF e.input = "error" THEN "Raise"
    ELSE IF e.fill = "error" THEN "Raise"
    ELSE IF e.obs = "error" THEN "Raise"
    ELSE IF e.err THEN "Invalid"
    ELSE IF e.succ THEN "Valid"
    ELSE classify_alerts(e.alerts)

\* submit_username_for_reset
submit_username_for_reset(e) ==
    IF e.reset = "no" THEN "Unknown"
    ELSE IF e.reset = "error" THEN "Raise"
    ELSE IF e.input = "none" THEN "Unknown"
    ELSE IF e.input = "error" THEN "Raise"
    ELSE IF e.fill = "error" THEN "Raise"
    ELSE IF e.obs = "error" THEN "Raise"
    ELSE IF e.succ THEN "Valid"
    ELSE IF e.err THEN "Invalid"
    ELSE classify_alerts(e.alerts)

Envs(v) == CASE v = "colgate" -> ColgateEnvs
             [] v = "google" -> GoogleEnvs
             [] v = "pepperdine" -> PepperdineEnvs

\* The probe call of the main loop.
Probe(v, e) ==
    CASE v = "colgate" -> Result(enter_email_and_submit(e), FALSE)
      [] v = "google" -> validate_email_google(e)
      [] v = "pepperdine" -> Result(submit_username_for_reset(e), FALSE)

---------------------------------------------------------------------------
(* The main loop.                                                         *)

\* --limit of the Pepperdine validator (0 = all)
Limits == {0, 1}

\* cur is the row the loop read last: probed (active, with its verdict and
\* the output file as it was before), or skipped.
NoProbe == [active |-> FALSE, row |-> NoRow, verdict |-> "none", pwd |-> FALSE,
            pre |-> <<>>]

\* The email the loop works with: the cell, trimmed.
EmailOf(row) == strip(row.email)

\* The key under which the seen set and the already-valid set hold an email.
EmailKey(v, email) == IF v = "colgate" THEN lower(email) ELSE email

\* The continue statements at the top of the loop body.
SkipRow(v, row, seen, valid, assigned) ==
    \/ EmailOf(row) = <<>>
    \/ EmailKey(v, EmailOf(row)) \in seen
    \/ v # "pepperdine" /\ EmailKey(v, EmailOf(row)) \in valid
    \/ v = "google" /\ normalize_person_key(row.full_name, row.username) \in assigned

\* Faulty variant: the test is `verdict is not False`.
persist_mut_truthy(v, verdict, out, row) ==
    IF verdict # "Invalid" THEN write_valid(v, out, row) ELSE out

\* if verdict is True: write_valid(row)
persist(v, verdict, out, row) ==
    IF verdict = "Valid" THEN write_valid(v, out, row) ELSE out

\* What one probe in environment e does to the loop: the result of the
\* classifier, and whether the reset of the page after it raises
\* (Pepperdine calls ensure_on_reset_page before it sleeps).
Outcome(v, e) ==
    LET res == Probe(v, e)
    IN  [verdict |-> res.verdict, pwd |-> res.pwd,
         late |-> v = "pepperdine" /\ res.verdict # "Raise" /\ e.after = "error"]

ColgateOutcomes == {Outcome("colgate", e) : e \in ColgateEnvs}

GoogleOutcomes == {Outcome("google", e) : e \in GoogleEnvs}

PepperdineOutcomes == {Outcome("pepperdine", e) : e \in PepperdineEnvs}

\* The outcomes the next probe may have: that of any environment, unless
\* the behaviour was started with one fixed environment to classify.
ProbeOutcomes ==
    IF env.kind # "none" THEN {Outcome(validator, env)}
    ELSE CASE validator = "colgate" -> ColgateOutcomes
           [] validator = "google" -> GoogleOutcomes
           [] validator = "pepperdine" -> PepperdineOutcomes

\* --cooldown-n of the Colgate validator (0 = never)
CooldownNs == {0, 1, 2}

\* --restart-n of the Google validator (0 = never)
RestartNs == {0, 1, 2}

\* The command line and the probe environment: fixed during a behaviour.
config == <<validator, limit, cooldown_n, restart_n, env>>

\* How the process ended: exit code, what it printed last, what ended it.
ending == <<exitCode, report, fault>>

\* Faulty variant: the counter is compared with > instead of >=.
limit_reached_mut_after(n, checked) == n # 0 /\ checked > n

\* if args.limit and processed >= args.limit
limit_reached(n, checked) == n # 0 /\ checked >= n

\* Faulty variant: the old session is left open.
quit_mut_noop(d, n) == n

\* driver.quit(): of the n browser sessions of the run, the one that driver
\* refers to ends if it was live.
quit(d, n) == IF d = "live" THEN n - 1 ELSE n

\* Faulty variant: the counter is tested before it is incremented.
cooldown_due_mut_early(n, checked) == n # 0 /\ (checked - 1) % n = 0

\* if args.cooldown_n and processed % args.cooldown_n == 0
cooldown_due(n, checked) == n # 0 /\ checked % n = 0

\* Faulty variant: the counter is tested before it is incremented.
restart_due_mut_early(n, checked) == n # 0 /\ (checked - 1) % n = 0

\* if args.restart_n and (total_checked % args.restart_n == 0)
restart_due(n, checked) == n # 0 /\ checked % n = 0

\* Faulty variant: the branch is a plain else of the Valid test.
extra_delay_mut_else(v, verdict) ==
    IF v = "google" /\ verdict # "Valid" THEN <<"delay">> ELSE <<>>

\* The sleep of email_validator.py on a None verdict, before the pacing sleep.
extra_delay(v, verdict) ==
    IF v = "google" /\ verdict = "Unknown" THEN <<"delay">> ELSE <<>>

\* Faulty variant: the pacing sleep is in the else branch of the Valid test.
pacing_mut_else(v, verdict, n, checked) ==
    (IF verdict = "Valid" THEN <<>> ELSE <<"sleep">>)
    \o (IF v = "colgate" /\ cooldown_due(n, checked) THEN <<"cooldown">> ELSE <<>>)

\* The sleeps at the end of the loop body: the pacing sleep, then the
\* cooldown of colgate_validator.py when it is due.
pacing(v, verdict, n, checked) ==
    <<"sleep">>
    \o (IF v = "colgate" /\ cooldown_due(n, checked) THEN <<"cooldown">> ELSE <<>>)

\* The merge script is not run.
NoMerge == files = <<>> /\ mi = 1 /\ best_by_name = <<>> /\ merged = <<>>

Init ==
    /\ validator \in Validators
    /\ pc = "init"
    /\ run = 1
    /\ rowsLeft = MaxRows
    /\ limit \in (IF validator = "pepperdine" THEN Limits ELSE {0})
    /\ cooldown_n \in (IF validator = "colgate" THEN CooldownNs ELSE {0})
    /\ restart_n \in (IF validator = "google" THEN RestartNs ELSE {0})
    /\ driver = "none"
    /\ seen_emails = {}
    /\ valid_emails = {}
    /\ assigned_people = {}
    /\ processed = 0
    /\ output = <<>>
    /\ cur = NoProbe
    /\ credited = {}
    /\ env = NoEnv
    /\ pauses = <<>>
    /\ exitCode = 0
    /\ report = "none"
    /\ fault = "none"
    /\ sessions = 0
    /\ NoMerge

\* make_driver raises: the process ends with a traceback.
StartupNoDriver ==
    /\ pc = "init"
    /\ pc' = "failed"
    /\ exitCode' = 1
    /\ report' = "traceback"
    /\ fault' = "open"
    /\ UNCHANGED <<mergeVars, config, run, rowsLeft, driver, seen_emails, valid_emails,
                   assigned_people, processed, output, cur, credited, pauses, sessions>>

\* Faulty variant: sys.exit() is called without the code.
StartupNoPage_mut_exit0 ==
    /\ pc = "init"
    /\ validator \in {"colgate", "pepperdine"}
    /\ pc' = "failed"
    /\ driver' = "quit"
    /\ exitCode' = 0
    /\ report' = "message"
    /\ fault' = "load"
    /\ sessions' = quit("live", sessions + 1)
    /\ UNCHANGED <<mergeVars, config, run, rowsLeft, seen_emails, valid_emails,
                   assigned_people, processed, output, cur, credited, pauses>>

\* The target page cannot be loaded: message, driver.quit(), sys.exit(1).
StartupNoPage ==
    /\ pc = "init"
    /\ validator \in {"colgate", "pepperdine"}
    /\ pc' = "failed"
    /\ driver' = "quit"
    /\ exitCode' = 1
    /\ report' = "message"
    /\ fault' = "load"
    /\ sessions' = quit("live", sessions + 1)
    /\ UNCHANGED <<mergeVars, config, run, rowsLeft, seen_emails, valid_emails,
                   assigned_people, processed, output, cur, credited, pauses>>

\* navigate_to_forgot raises at startup (driver.get is outside any try).
StartupPageError ==
    /\ pc = "init"
    /\ validator = "pepperdine"
    /\ pc' = "failed"
    /\ driver' = "live"
    /\ exitCode' = 1
    /\ report' = "traceback"
    /\ fault' = "load"
    /\ sessions' = sessions + 1
    /\ UNCHANGED <<mergeVars, config, run, rowsLeft, seen_emails, valid_emails,
                   assigned_people, processed, output, cur, credited, pauses>>

\* Startup succeeds: the sets are created and seeded from the output file.
Startup ==
    /\ pc = "init"
    /\ pc' = "loop"
    /\ driver' = "live"
    /\ seen_emails' = {}
    /\ valid_emails' = load_valid_emails(validator, output)
    /\ assigned_people' = load_assigned_people(validator, output)
    /\ processed' = 0
    /\ sessions' = sessions + 1
    /\ UNCHANGED <<mergeVars, config, run, rowsLeft, output, cur, credited, pauses, ending>>

\* The Pepperdine loop reads a row after --limit probes: break.
LimitReached ==
    /\ pc = "loop"
    /\ rowsLeft > 0
    /\ validator = "pepperdine" /\ limit_reached(limit, processed)
    /\ rowsLeft' = rowsLeft - 1
    /\ pc' = "done"
    /\ driver' = "quit"
    /\ exitCode' = 0
    /\ report' = "summary"
    /\ sessions' = quit(driver, sessions)
    /\ UNCHANGED <<mergeVars, config, run, seen_emails, valid_emails, assigned_people,
                   processed, output, cur, credited, pauses, fault>>

\* Faulty variant: the counter is incremented before the continue.
SkipStep_mut_counted(row) ==
    /\ pc = "loop"
    /\ rowsLeft > 0
    /\ ~(validator = "pepperdine" /\ limit_reached(limit, processed))
    /\ SkipRow(validator, row, seen_emails, valid_emails, assigned_people)
    /\ rowsLeft' = rowsLeft - 1
    /\ processed' = processed + 1
    /\ cur' = [NoProbe EXCEPT !.row = row, !.verdict = "skipped", !.pre = output]
    /\ UNCHANGED <<mergeVars, config, pc, run, driver, seen_emails, valid_emails,
                   assigned_people, output, credited, pauses, ending, sessions>>

\* One row that the loop skips.
SkipStep(row) ==
    /\ pc = "loop"
    /\ rowsLeft > 0
    /\ ~(validator = "pepperdine" /\ limit_reached(limit, processed))
    /\ SkipRow(validator, row, seen_emails, valid_emails, assigned_people)
    /\ rowsLeft' = rowsLeft - 1
    /\ cur' = [NoProbe EXCEPT !.row = row, !.verdict = "skipped", !.pre = output]
    /\ UNCHANGED <<mergeVars, config, pc, run, driver, seen_emails, valid_emails,
                   assigned_people, processed, output, credited, pauses, ending, sessions>>

\* One row that is probed with outcome res, up to the pacing sleep.
ProbeStep(row, res) ==
    LET key == EmailKey(validator, EmailOf(row))
        raised == res.verdict = "Raise"
        late == res.late
    IN  /\ pc = "loop"
        /\ rowsLeft > 0
        /\ ~(validator = "pepperdine" /\ limit_reached(limit, processed))
        /\ ~SkipRow(validator, row, seen_emails, valid_emails, assigned_people)
        /\ rowsLeft' = rowsLeft - 1
        /\ seen_emails' = seen_emails \cup {key}
        /\ cur' = [active |-> TRUE, row |-> row, verdict |-> res.verdict,
                   pwd |-> res.pwd, pre |-> output]
        /\ output' = IF raised THEN output
                     ELSE persist(validator, res.verdict, output, row)
        /\ valid_emails' = IF res.verdict = "Valid" /\ validator # "google"
                           THEN valid_emails \cup {key} ELSE valid_emails
        /\ assigned_people' = IF res.verdict = "Valid" /\ validator = "google"
                              THEN assigned_people \cup
                                     {normalize_person_key(row.full_name, row.username)}
                              ELSE assigned_people
        /\ credited' = IF res.verdict = "Valid" THEN credited \cup {row} ELSE credited
        /\ processed' = IF raised THEN processed ELSE processed + 1
        /\ pauses' = extra_delay(validator, res.verdict)
        /\ pc' = IF raised \/ late THEN "crashed" ELSE "pace"
        /\ driver' = IF raised \/ late THEN "quit" ELSE driver
        /\ exitCode' = IF raised \/ late THEN 1 ELSE exitCode
        /\ report' = IF raised \/ late THEN "traceback" ELSE report
        /\ fault' = IF raised THEN "probe" ELSE IF late THEN "reset" ELSE fault
        /\ sessions' = IF raised \/ late THEN quit(driver, sessions) ELSE sessions
        /\ UNCHANGED <<mergeVars, config, run>>

\* The next row of the input file.
Step == \E row \in Rows(validator) :
           \/ SkipStep(row)
           \/ \E res \in ProbeOutcomes : ProbeStep(row, res)

\* The pacing sleep and what follows it up to the next row.  When the
\* restart of email_validator.py is due the old session is quit and the
\* 2 s wait is taken; make_driver is the next step.
Pace ==
    LET restart == validator = "google" /\ restart_due(restart_n, processed)
    IN  /\ pc = "pace"
        /\ pauses' = pauses \o pacing(validator, cur.verdict, cooldown_n, processed)
                            \o (IF restart THEN <<"restart">> ELSE <<>>)
        /\ pc' = IF restart THEN "restart" ELSE "loop"
        /\ driver' = IF restart THEN "quit" ELSE driver
        /\ cur' = NoProbe
        /\ sessions' = IF restart THEN quit(driver, sessions) ELSE sessions
        /\ UNCHANGED <<mergeVars, config, run, rowsLeft, seen_emails, valid_emails,
                       assigned_people, processed, output, credited, ending>>

\* driver = make_driver(headless=headless) of the restart succeeds.
Restart ==
    /\ pc = "restart"
    /\ pc' = "loop"
    /\ driver' = "live"
    /\ sessions' = sessions + 1
    /\ UNCHANGED <<mergeVars, config, run, rowsLeft, seen_emails, valid_emails, assigned_people,
                   processed, output, cur, credited, pauses, ending>>

\* make_driver of the restart raises: finally, then the traceback.
RestartFail ==
    /\ pc = "restart"
    /\ pc' = "crashed"
    /\ exitCode' = 1
    /\ report' = "traceback"
    /\ fault' = "restart"
    /\ sessions' = quit(driver, sessions)
    /\ UNCHANGED <<mergeVars, config, run, rowsLeft, driver, seen_emails, valid_emails,
                   assigned_people, processed, output, cur, credited, pauses>>

\* The input file is exhausted: finally driver.quit(), then the summary line.
EndOfInput ==
    /\ pc = "loop"
    /\ pc' = "done"
    /\ driver' = "quit"
    /\ exitCode' = 0
    /\ report' = "summary"
    /\ sessions' = quit(driver, sessions)
    /\ UNCHANGED <<mergeVars, config, run, rowsLeft, seen_emails, valid_emails,
                   assigned_people, processed, output, cur, credited, pauses, fault>>

\* KeyboardInterrupt inside the try block: finally driver.quit(), then the
\* traceback; the memory of the process is gone.
Interrupt ==
    /\ pc \in {"loop", "pace", "restart"}
    /\ pc' = "interrupted"
    /\ driver' = "quit"
    /\ exitCode' = 1
    /\ report' = "traceback"
    /\ fault' = "interrupt"
    /\ seen_emails' = {}
    /\ valid_emails' = {}
    /\ assigned_people' = {}
    /\ processed' = 0
    /\ cur' = NoProbe
    /\ pauses' = <<>>
    /\ sessions' = quit(driver, sessions)
    /\ UNCHANGED <<mergeVars, config, run, rowsLeft, output, credited>>

\* The process is killed while it waits or sleeps; its memory is gone, the
\* output file stays.
Kill ==
    /\ pc \in {"loop", "pace", "restart"}
    /\ pc' = "killed"
    /\ seen_emails' = {}
    /\ valid_emails' = {}
    /\ assigned_people' = {}
    /\ processed' = 0
    /\ cur' = NoProbe
    /\ pauses' = <<>>
    /\ UNCHANGED <<mergeVars, config, run, rowsLeft, driver, output, credited, ending, sessions>>

\* The same validator is started again on the same output file.
NewRun ==
    /\ pc \in {"done", "failed", "crashed", "interrupted", "killed"}
    /\ run < MaxRuns
    /\ run' = run + 1
    /\ pc' = "init"
    /\ driver' = "none"
    /\ seen_emails' = {}
    /\ valid_emails' = {}
    /\ assigned_people' = {}
    /\ processed' = 0
    /\ cur' = NoProbe
    /\ pauses' = <<>>
    /\ exitCode' = 0
    /\ report' = "none"
    /\ fault' = "none"
    /\ sessions' = 0
    /\ UNCHANGED <<mergeVars, config, rowsLeft, output, credited>>

Next ==
    \/ StartupNoDriver
    \/ StartupNoPage
    \/ StartupPageError
    \/ Startup
    \/ LimitReached
    \/ Step
    \/ Pace
    \/ Restart
    \/ RestartFail
    \/ EndOfInput
    \/ Interrupt
    \/ Kill
    \/ NewRun

Spec == Init /\ [][Next]_vars

\* One run in one given environment: the environment of every probe is
\* fixed from the start, so that a verdict can be compared with it.
InitProbe ==
    /\ validator \in Validators
    /\ env \in Envs(validator)
    /\ pc = "init"
    /\ run = 1
    /\ rowsLeft = MaxRows
    /\ limit \in (IF validator = "pepperdine" THEN Limits ELSE {0})
    /\ cooldown_n \in (IF validator = "colgate" THEN CooldownNs ELSE {0})
    /\ restart_n \in (IF validator = "google" THEN RestartNs ELSE {0})
    /\ driver = "none"
    /\ seen_emails = {}
    /\ valid_emails = {}
    /\ assigned_people = {}
    /\ processed = 0
    /\ output = <<>>
    /\ cur = NoProbe
    /\ credited = {}
    /\ pauses = <<>>
    /\ exitCode = 0
    /\ report = "none"
    /\ fault = "none"
    /\ sessions = 0
    /\ NoMerge

\* A single run that gets past startup, from its first row to its end.
NextProbe ==
    \/ Startup
    \/ LimitReached
    \/ Step
    \/ Pace
    \/ Restart
    \/ RestartFail
    \/ EndOfInput

SpecProbe == InitProbe /\ [][NextProbe]_vars

---------------------------------------------------------------------------
(* merge_colgate_verified.py: the verified_colgate_*.csv files of a        *)
(* directory are merged into one file with one email per full name.        *)

\* re.split(r"\s+", s) without the empty parts; w is the part being read.
RECURSIVE words(_, _)
words(s, w) ==
    IF s = <<>> THEN (IF w = <<>> THEN <<>> ELSE <<w>>)
    ELSE IF Head(s) = " "
         THEN (IF w = <<>> THEN <<>> ELSE <<w>>) \o words(Tail(s), <<>>)
         ELSE words(Tail(s), Append(w, Head(s)))

\* split_name: <<first, last>>, lower-cased
split_name(full_name) ==
    LET parts == words(strip(full_name), <<>>)
    IN  IF parts = <<>> THEN << <<>>, <<>> >>
        ELSE << lower(parts[1]),
                IF Len(parts) > 1 THEN lower(parts[Len(parts)]) ELSE <<>> >>

\* classify_local
classify_local(local, first, last) ==
    LET l == lower(local)
        both == first # <<>> /\ last # <<>>
    IN  IF both /\ l = first \o <<".">> \o last THEN 3
        ELSE IF both /\ l = first \o last THEN 2
        ELSE IF both /\ l = <<first[1]>> \o last THEN 1
        ELSE IF both /\ l = first \o <<last[1]>> THEN 1
        ELSE IF "." \in Range(l) THEN 2
        ELSE 0

\* The characters of [A-Za-z0-9\.-] among the tokens in use.
DomainChars == {"a", "b", "c", "d", "e", "A", "B", "E", ".", "-"}

\* The positions of "@" in an email.
Ats(email) == {i \in 1..Len(email) : email[i] = "@"}

\* EMAIL_RE.match(email): one "@", something before it, a domain after it.
EMAIL_RE_match(email) ==
    /\ Cardinality(Ats(email)) = 1
    /\ LET p == CHOOSE i \in Ats(email) : TRUE
       IN  /\ p > 1 /\ p < Len(email)
           /\ \A i \in (p + 1)..Len(email) : email[i] \in DomainChars

\* m.group(1) if m else email.split("@", 1)[0]
local_part(email) ==
    IF EMAIL_RE_match(email)
    THEN SubSeq(email, 1, (CHOOSE i \in Ats(email) : TRUE) - 1)
    ELSE IF Ats(email) = {} THEN email
    ELSE SubSeq(email, 1, (CHOOSE i \in Ats(email) : \A j \in Ats(email) : i <= j) - 1)

\* score of choose_best: (pattern_rank, len(local))
score(email, full_name) ==
    LET n == split_name(full_name)
        local == local_part(email)
    IN  <<classify_local(local, n[1], n[2]), Len(local)>>

\* The order of Python tuples of two integers.
ScoreLess(a, b) == a[1] < b[1] \/ (a[1] = b[1] /\ a[2] < b[2])

\* Faulty variant: on equal scores the candidate replaces the kept email.
choose_best_mut_last(existing_email, candidate_email, full_name) ==
    IF ScoreLess(score(candidate_email, full_name), score(existing_email, full_name))
    THEN existing_email ELSE candidate_email

\* choose_best: max([existing, candidate], key=score), the first maximum
choose_best(existing_email, candidate_email, full_name) ==
    IF ScoreLess(score(existing_email, full_name), score(candidate_email, full_name))
    THEN candidate_email ELSE existing_email

\* The names and emails the verified files may hold: an empty name, a
\* two-part name, the same with padding, a one-part name; an empty email,
\* first.last, firstlast, an upper-case variant with a dot, and a flast
\* without "@".
MergeNames == {<<>>, <<"a", "c", " ", "b">>, <<"a", "c", " ", "b", " ">>, <<"b">>}

MergeEmails == {<<>>, <<"a", "c", ".", "b", "@", "d">>, <<"a", "c", "b", "@", "d">>,
                <<" ", "A", ".", "b", "@", "d">>, <<"a", "b">>}

MergeRows == [full_name : MergeNames, email : MergeEmails]

\* The rows of the files, in the order of sorted(glob(...)) and of the files.
MergeInputs == UNION {[1..n -> MergeRows] : n \in 0..MaxMergeRows}

\* The position of a key in the dict best_by_name (insertion order), or 0.
DictIndex(d, full) ==
    IF \E k \in 1..Len(d) : d[k].full = full
    THEN CHOOSE k \in 1..Len(d) : d[k].full = full
    ELSE 0

\* The validators are not run.
NoRun ==
    /\ validator = "colgate" /\ pc = "init" /\ run = 1 /\ rowsLeft = 0
    /\ limit = 0 /\ cooldown_n = 0 /\ restart_n = 0 /\ env = NoEnv
    /\ driver = "none" /\ sessions = 0
    /\ seen_emails = {} /\ valid_emails = {} /\ assigned_people = {}
    /\ processed = 0 /\ output = <<>> /\ cur = NoProbe /\ credited = {}
    /\ pauses = <<>> /\ exitCode = 0 /\ report = "none" /\ fault = "none"

runVars == <<validator, pc, run, rowsLeft, limit, driver, seen_emails,
             valid_emails, assigned_people, processed, output, cur, credited, env,
             cooldown_n, restart_n, pauses, exitCode, report, fault, sessions>>

InitMerge ==
    /\ NoRun
    /\ files \in MergeInputs
    /\ mi = 1
    /\ best_by_name = <<>>
    /\ merged = <<>>

\* One row of the loop of merge_verified.
MergeRow ==
    /\ merged = <<>>
    /\ mi <= Len(files)
    /\ LET full == strip(files[mi].full_name)
           email == lower(strip(files[mi].email))
           k == DictIndex(best_by_name, full)
       IN  best_by_name' =
              IF full = <<>> \/ email = <<>> THEN best_by_name
              ELSE IF k = 0
                   THEN Append(best_by_name, [full |-> full, email |-> email])
                   ELSE [best_by_name EXCEPT
                            ![k].email = choose_best(@, email, full)]
    /\ mi' = mi + 1
    /\ UNCHANGED <<runVars, files, merged>>

\* The output file is written: the header and one line per key.
MergeWrite ==
    /\ merged = <<>>
    /\ mi > Len(files)
    /\ merged' = << << <<"full_name">>, <<"email">> >> >>
                 \o [k \in 1..Len(best_by_name) |->
                        <<best_by_name[k].full, best_by_name[k].email>>]
    /\ UNCHANGED <<runVars, files, mi, best_by_name>>

NextMerge ==
    \/ MergeRow
    \/ MergeWrite

SpecMerge == InitMerge /\ [][NextMerge]_vars

---------------------------------------------------------------------------
(* Properties.                                                            *)

\* The data rows of a file, as csv.DictReader yields them.
DataRows(out) == DictReader(out)

\* The email cells of the data rows of a file, trimmed.
FileEmails(out) == {strip(get(r, <<"email">>)) : r \in Range(DataRows(out))}

\* C1: in every validator a row is appended to the output file only for a
\* candidate whose probe verdict is Valid; a probe whose verdict is Invalid
\* or Unknown leaves the file as it was, and no other step writes to it.
C1_OnlyValidAppends ==
    [][ /\ output' # output =>
            (cur'.active /\ cur'.verdict = "Valid" /\ cur'.pre = output)
        /\ (cur'.active /\ cur'.verdict \in {"Invalid", "Unknown"} /\ pc = "loop") =>
            output' = output ]_vars

\* An Invalid or Unknown verdict met a file that already had rows, and left it.
C1_Witness ==
    /\ cur.active /\ cur.verdict \in {"Invalid", "Unknown"}
    /\ Len(cur.pre) >= 2
    /\ output = cur.pre

\* C2: after any sequence of runs appending to the same output file, no
\* email appears in more than one data row of the file.
C2_NoDuplicateEmail ==
    \A i, j \in 1..Len(DataRows(output)) :
        i # j => get(DataRows(output)[i], <<"email">>) # get(DataRows(output)[j], <<"email">>)

\* C3: a run that starts with rows in the output file seeds its already-valid
\* set from them, so no email present in the file is probed again.
C3_NoReprobe ==
    cur.active => EmailOf(cur.row) \notin FileEmails(cur.pre)

\* C4: a timeout or exception during one candidate's probe becomes the
\* Unknown verdict and never leaves the probe loop.
C4_NoProbeFailureEscapes ==
    cur.verdict # "Raise" /\ pc # "crashed"

\* C5: the row of every candidate classified Valid is in the output file
\* before the pacing sleep and before the next probe, hence at every point
\* where the process may be killed.
C5_ValidRowsAreOnDisk ==
    \A r \in credited : \E i \in 1..Len(output) : output[i] = RowOut(validator, r)

\* The process was killed after a Valid verdict; the row is in the file.
C5_Witness ==
    /\ pc = "killed"
    /\ credited # {}
    /\ \A r \in credited : \E i \in 2..Len(output) : output[i] = RowOut(validator, r)

\* C6: write_valid only appends: the file before the write is a prefix of
\* the file after it, exactly one data row is added, the header is written
\* if and only if the file was empty, and so the header is the first line
\* of the file and occurs nowhere else.
C6_AppendOnly ==
    /\ (cur.active /\ cur.verdict = "Valid") =>
          /\ Len(output) = Len(cur.pre) + (IF cur.pre = <<>> THEN 2 ELSE 1)
          /\ SubSeq(output, 1, Len(cur.pre)) = cur.pre
          /\ output[Len(output)] = RowOut(validator, cur.row)
          /\ cur.pre = <<>> => output[1] = Fieldnames(validator)
    /\ output # <<>> =>
          /\ output[1] = Fieldnames(validator)
          /\ \A i \in 2..Len(output) : output[i] # Fieldnames(validator)

\* A later run appended a second data row to a file that had its header.
C6_Witness ==
    /\ run > 1
    /\ cur.active /\ cur.verdict = "Valid"
    /\ Len(cur.pre) = 2
    /\ Len(output) = 3

\* The person key of a data row of the Google output file.
RowPersonKey(r) == normalize_person_key(get(r, <<"full_name">>), get(r, <<"username">>))

\* C7: in the Google validator no candidate is probed whose person key
\* already has a row in the output file (written in this run or an earlier
\* one), so the file holds at most one row per person key.
C7_OnePersonOneRow ==
    validator = "google" =>
        /\ cur.active =>
              normalize_person_key(cur.row.full_name, cur.row.username)
                 \notin {RowPersonKey(r) : r \in Range(DataRows(cur.pre))}
        /\ \A i, j \in 1..Len(DataRows(output)) :
              i # j => RowPersonKey(DataRows(output)[i]) # RowPersonKey(DataRows(output)[j])

\* In a later run a row with a new email, spelled differently from the row
\* in the file but with the same person key, was skipped.
C7_Witness ==
    /\ validator = "google"
    /\ run > 1
    /\ cur.verdict = "skipped"
    /\ EmailOf(cur.row) # <<>>
    /\ EmailOf(cur.row) \notin seen_emails \cup valid_emails
    /\ \E r \in Range(DataRows(output)) :
          /\ RowPersonKey(r) = normalize_person_key(cur.row.full_name, cur.row.username)
          /\ get(r, <<"full_name">>) # cur.row.full_name

\* The probe of cur was made in environment env, the page was submitted to
\* and read (checked under SpecProbe, where env is the probe's environment).
Submitted ==
    /\ cur.active
    /\ env.kind = validator
    /\ CASE validator = "colgate" -> ColgateSubmitted(env)
         [] validator = "google" -> GoogleSubmitted(env)
         [] validator = "pepperdine" -> PepperdineSubmitted(env)

\* Neither an acceptance signal nor a known rejection message is on the page.
NoSignal ==
    CASE validator = "colgate" -> ~env.pw /\ "hint" \notin Range(env.errs)
      [] validator = "google" -> ~env.pwUrl /\ ~env.pwInput /\ env.msg = "none"
      [] validator = "pepperdine" ->
            ~env.succ /\ ~env.err /\ \A i \in 1..Len(env.alerts) : env.alerts[i] = "other"

\* C8: when neither the acceptance signal nor a known rejection message is
\* observed before the bounded wait expires, the verdict is Unknown, never
\* Valid, and the main loop appends no row for the candidate.
C8_NoSignalIsUnknown ==
    (Submitted /\ NoSignal) => (cur.verdict = "Unknown" /\ output = cur.pre)

\* A page without any signal was classified; it may carry other texts.
C8_Witness ==
    /\ Submitted /\ NoSignal
    /\ cur.verdict = "Unknown"
    /\ \/ validator = "colgate" /\ env.errs # <<>>
       \/ validator = "google" /\ env.saml
       \/ validator = "pepperdine" /\ env.alerts # <<>>

\* The page after identifier submission shows a password input and no
\* error banner (Colgate and Google).
PasswordNoBanner ==
    CASE validator = "colgate" -> env.pw /\ env.errs = <<>>
      [] validator = "google" -> env.pwInput /\ env.msg = "none"
      [] validator = "pepperdine" -> FALSE

\* C9 as stated: with a visible password input and no error banner the
\* probe is classified username-accepted and its result is never Unknown.
C9_NeverUnknown ==
    (Submitted /\ PasswordNoBanner) => cur.verdict # "Unknown"

\* The wrong-password check of the Google probe gave no answer.
CheckInconclusive ==
    \/ env.pwField = "timeout"
    \/ env.pwField = "found" /\ ~env.wrong /\ ~env.enter /\ ~env.msg2

\* C9 amended: with a visible password input and no error banner the
\* Colgate verdict is Valid; the Google probe, unless the URL is a SAML/SSO
\* redirect, goes on to the password step, and its result is Unknown only
\* when the wrong-password check is inconclusive.
C9_PasswordStepReached ==
    (Submitted /\ PasswordNoBanner) =>
        /\ validator = "colgate" => cur.verdict = "Valid"
        /\ (validator = "google" /\ ~env.saml) =>
              /\ env.pwField = "found" => cur.pwd
              /\ cur.verdict = "Unknown" => CheckInconclusive
              /\ cur.verdict = "Invalid" => env.msg2

\* Both providers: Colgate accepted, and Google accepted after the check.
C9_Witness ==
    /\ Submitted /\ PasswordNoBanner
    /\ cur.verdict = "Valid"
    /\ validator = "google" => (cur.pwd /\ env.wrong /\ ~env.saml)
    /\ output # cur.pre

\* The page holds a known account-not-found string and no password input.
NotFoundNoPassword ==
    CASE validator = "colgate" -> "hint" \in Range(env.errs) /\ ~env.pw
      [] validator = "google" -> env.msg = "notfound" /\ ~env.pwInput
      [] validator = "pepperdine" ->
            env.err \/ \E i \in 1..Len(env.alerts) : env.alerts[i] \in {"err", "both"}

\* C10 as stated: a known account-not-found string and no password input
\* give Invalid, whatever the other page signals (URL, other text) are.
C10_AlwaysInvalid ==
    (Submitted /\ NotFoundNoPassword) => cur.verdict = "Invalid"

\* The account-not-found string is where the classifier reads it, and
\* nothing that the classifier tests earlier is present.
NotFoundTakesEffect ==
    CASE validator = "colgate" -> env.errs # <<>> /\ Head(env.errs) = "hint"
      [] validator = "google" -> env.msg = "notfound" /\ ~env.saml
      [] validator = "pepperdine" ->
            /\ ~env.succ
            /\ \/ env.err
               \/ \E i \in 1..Len(env.alerts) :
                     /\ env.alerts[i] \in {"err", "both"}
                     /\ \A j \in 1..(i - 1) : env.alerts[j] = "other"

\* C10 amended: the verdict is Invalid when the account-not-found string is
\* in the first displayed error text (Colgate), when the URL is not a
\* SAML/SSO redirect (Google), when the page text has no success hint and
\* the string is in the page text or in the first alert that has any hint
\* (Pepperdine).
C10_InvalidWhenRead ==
    (Submitted /\ NotFoundTakesEffect) => (cur.verdict = "Invalid" /\ output = cur.pre)

\* Invalid although other signals are present: a password challenge URL.
C10_Witness ==
    /\ Submitted /\ NotFoundTakesEffect /\ NotFoundNoPassword
    /\ validator = "google" /\ env.pwUrl
    /\ cur.verdict = "Invalid"

\* C11: the Google validator returns Valid only after the password step was
\* reached, a wrong password was submitted and a wrong-password / try-again
\* message was then observed; when the page after the password submission
\* shows an account-not-found message, the verdict is not Valid.
C11_ValidOnlyAfterWrongPassword ==
    (validator = "google" /\ Submitted) =>
        /\ cur.verdict = "Valid" =>
              (at_password_step(env) /\ cur.pwd /\ env.wrong)
        /\ (cur.pwd /\ env.msg2) => cur.verdict # "Valid"

\* The page reached after identifier submission is a SAML / SSO redirect.
SamlRedirect == validator = "google" /\ Submitted /\ env.saml

\* C12: when the URL after identifier submission is a SAML / SSO redirect,
\* the Google verdict is Unknown whatever error message or password field
\* is also present, no wrong password is submitted and no row is written.
C12_SamlIsUnknown ==
    SamlRedirect => (cur.verdict = "Unknown" /\ ~cur.pwd /\ output = cur.pre)

\* A redirect page that also shows a not-found message and a password input.
C12_Witness ==
    /\ SamlRedirect
    /\ env.msg = "notfound" /\ env.pwInput
    /\ cur.verdict = "Unknown" /\ ~cur.pwd /\ output = cur.pre

RestartPoint == \E k \in 1..processed : processed = k * restart_n

\* C14: with restart_n = N > 0 the Google validator closes the session and
\* opens a fresh one after exactly the N-th, 2N-th, ... probe of the run
\* (skipped rows are not counted) and at no other point; with restart_n = 0
\* it never restarts.
C14_RestartEveryN ==
    validator = "google" =>
        /\ pc = "restart" => (RestartPoint /\ driver = "quit")
        /\ pc = "pace" => "restart" \notin Range(pauses)
        /\ processed = 0 => "restart" \notin Range(pauses)
        /\ (pc = "loop" /\ processed > 0) =>
              /\ ("restart" \in Range(pauses)) <=> RestartPoint
              /\ driver = "live"

\* The second restart of a run with restart_n = 1.
C14_Witness ==
    /\ validator = "google" /\ restart_n = 1
    /\ pc = "loop" /\ processed = 2
    /\ "restart" \in Range(pauses) /\ driver = "live"

\* C15: when opening the new session during a periodic restart fails, the
\* open is retried once after a fixed delay; the run ends as fatal only
\* after that retry.
C15_RestartOpenRetried ==
    (pc = "crashed" /\ fault = "restart") => "retry" \in Range(pauses)

\* The target page could not be navigated to during the probe.
NavigationFailed ==
    /\ env.kind = validator
    /\ CASE validator = "colgate" -> ~env.atUser /\ ~env.recovered
         [] validator = "google" -> env.nav = "error"
         [] validator = "pepperdine" -> env.reset \in {"no", "error"}

\* C16: when navigation to the target page fails during a probe, the
\* verdict of the candidate is Unknown, the session is restarted before
\* the next candidate is probed, and the run goes on.
C16_NavigationFailureRestarts ==
    NavigationFailed =>
        /\ cur.active => cur.verdict = "Unknown"
        /\ pc # "crashed"
        /\ (pc = "loop" /\ processed > 0) => "restart" \in Range(pauses)

\* C17: on every path by which the process leaves after a browser session
\* was opened, quit has been invoked on the live session.
C17_QuitOnEveryExit ==
    (pc \in {"done", "failed", "crashed", "interrupted"} /\ driver # "none")
        => driver = "quit"

\* C18: a run that gets past startup ends with exit code 0 and the summary
\* line; the exit code is not zero only when startup fails.
C18_ExitZeroPastStartup ==
    /\ pc \in {"done", "crashed"} => (exitCode = 0 /\ report = "summary")
    /\ (pc \in {"done", "failed", "crashed"} /\ exitCode # 0) => pc = "failed"

\* C19: between the end of a probe and the start of the next probe of the
\* same run there is at least one pacing sleep, whatever the verdict was.
C19_SleepBetweenProbes ==
    (pc \in {"loop", "restart"} /\ processed > 0) => "sleep" \in Range(pauses)

\* A candidate was found Valid and the next row is about to be read.
C19_Witness ==
    /\ env.kind = validator
    /\ Outcome(validator, env).verdict = "Valid"
    /\ pc = "loop" /\ processed > 0 /\ rowsLeft > 0
    /\ "sleep" \in Range(pauses)

\* The run has made its K-th, 2K-th, ... probe, K being cooldown_n.
CooldownPoint == \E k \in 1..processed : processed = k * cooldown_n

\* C20: with cooldown_n = K > 0 the Colgate validator takes the cooldown
\* sleep after exactly the K-th, 2K-th, ... probe of the run (skipped rows
\* are not counted), after the pacing sleep, and at no other point; with
\* cooldown_n = 0 it never takes it.
C20_CooldownEveryK ==
    validator = "colgate" =>
        /\ pc = "pace" => pauses = <<>>
        /\ processed = 0 => pauses = <<>>
        /\ (pc = "loop" /\ processed > 0) =>
              pauses = IF CooldownPoint THEN <<"sleep", "cooldown">> ELSE <<"sleep">>

\* The second cooldown of a run with cooldown_n = 1.
C20_Witness ==
    /\ validator = "colgate" /\ cooldown_n = 1
    /\ pc = "loop" /\ processed = 2
    /\ pauses = <<"sleep", "cooldown">>

\* The verdict of every probe of the run, the environment being fixed.
FixedVerdict == Outcome(validator, env).verdict

\* C21: in the Google validator every probe whose verdict is Unknown is
\* followed by an additional delay before the regular pacing sleep, and no
\* such delay follows a Valid or Invalid verdict.
C21_DelayOnlyOnUnknown ==
    (validator = "google" /\ env.kind = validator) =>
        /\ pc = "pace" =>
              pauses = IF cur.verdict = "Unknown" THEN <<"delay">> ELSE <<>>
        /\ (pc \in {"loop", "restart"} /\ processed > 0) =>
              IF FixedVerdict = "Unknown"
              THEN Len(pauses) >= 2 /\ pauses[1] = "delay" /\ pauses[2] = "sleep"
              ELSE "delay" \notin Range(pauses)

\* An Unknown probe was followed by the delay and then the pacing sleep.
C21_Witness ==
    /\ validator = "google" /\ env.kind = validator
    /\ FixedVerdict = "Unknown"
    /\ pc = "loop" /\ processed > 0
    /\ pauses = <<"delay", "sleep">>

\* The Colgate probe found the page off the username step and the recovery
\* (back button, "Use another account", reload) did not bring it back
\* within the wait.
StuckOffUsernameStep ==
    /\ validator = "colgate" /\ env.kind = validator /\ cur.active
    /\ ~env.atUser /\ ~env.recovered

\* C22: the Colgate probe types and submits the email only when the
\* username step is displayed, on entry or after the awaited recovery;
\* otherwise it returns Unknown without submitting anything, so no verdict
\* is drawn from the page and no row is written.
C22_SubmitOnlyAtUsernameStep ==
    /\ StuckOffUsernameStep => (cur.verdict = "Unknown" /\ output = cur.pre)
    /\ (validator = "colgate" /\ env.kind = validator /\ cur.active
          /\ cur.verdict \in {"Valid", "Invalid"}) => ColgateSubmitted(env)

\* Stuck on a page that shows the password field of an earlier account.
C22_Witness ==
    /\ StuckOffUsernameStep
    /\ env.pw /\ env.input = "found"
    /\ cur.verdict = "Unknown" /\ output = cur.pre

\* C23: the seen set and the already-valid set are keyed by the trimmed,
\* lower-cased email: emails that differ only in letter case are probed at
\* most once in a run, and an email that differs only in case from one in
\* the output file is not probed.
C23_KeysAreLowerCased ==
    /\ \A a, b \in seen_emails : lower(a) = lower(b) => a = b
    /\ cur.active =>
          lower(EmailOf(cur.row)) \notin {lower(m) : m \in FileEmails(cur.pre)}

\* C24: at every point of a run at most one browser session is live; the
\* restart of the Google validator closes the old session before the new
\* one is opened, and a row is read and probed only with a live session.
C24_OneSession ==
    /\ sessions \in {0, 1}
    /\ pc \in {"loop", "pace"} => (driver = "live" /\ sessions = 1)
    /\ pc = "restart" => (driver = "quit" /\ sessions = 0)

\* After a restart: the new session is the only one.
C24_Witness ==
    /\ validator = "google"
    /\ pc = "loop" /\ "restart" \in Range(pauses)
    /\ driver = "live" /\ sessions = 1
    /\ cur.verdict = "skipped"

C26_SkipChangesNothing ==
    [][(pc = "loop" /\ pc' = "loop" /\ rowsLeft' # rowsLeft) =>
          /\ cur'.verdict = "skipped" /\ ~cur'.active
          /\ UNCHANGED <<output, pauses, seen_emails, valid_emails, assigned_people,
                         processed, credited, driver, sessions>>]_vars

\* A row was skipped after a probe of the same run, for an email that is
\* not empty.
C26_Witness ==
    /\ cur.verdict = "skipped" /\ EmailOf(cur.row) # <<>>
    /\ pc = "loop" /\ processed = 1 /\ "sleep" \in Range(pauses)
    /\ Len(output) = Len(cur.pre)

\* C27: with --limit N > 0 the Pepperdine validator issues at most N probes
\* in a run and examines no row after the N-th probe: the loop ends at the
\* next row it reads; with --limit 0 every row read is examined.
C27_LimitBoundsProbes ==
    [][(validator = "pepperdine" /\ pc = "loop" /\ rowsLeft' # rowsLeft) =>
          /\ limit # 0 => processed' <= limit
          /\ IF limit # 0 /\ processed >= limit
             THEN pc' = "done" /\ UNCHANGED <<cur, seen_emails, output, processed>>
             ELSE cur'.verdict = "skipped" \/ cur'.active]_vars

\* The loop ended at the row read after the N-th probe.
C27_Witness ==
    /\ validator = "pepperdine" /\ limit = 1
    /\ run = 1 /\ rowsLeft = MaxRows - 2
    /\ pc = "done" /\ processed = 1
    /\ report = "summary"

\* The first alert text that holds any hint is the i-th, and its hint is
\* one of kinds.
FirstHintedAlert(kinds) ==
    \E i \in 1..Len(env.alerts) :
        /\ env.alerts[i] \in kinds
        /\ \A j \in 1..(i - 1) : env.alerts[j] = "other"

\* C28: the Pepperdine classifier tests the success hints of the page text
\* before its error hints: Valid whenever a success hint is in the page
\* text, Invalid when an error hint and no success hint is; the alert texts
\* decide only when the page text has neither (error hints first within an
\* alert), and the verdict is Unknown otherwise.
C28_SuccessBeforeError ==
    (validator = "pepperdine" /\ Submitted) =>
        /\ env.succ => cur.verdict = "Valid"
        /\ (~env.succ /\ env.err) => cur.verdict = "Invalid"
        /\ (~env.succ /\ ~env.err) =>
              /\ cur.verdict = "Invalid" <=> FirstHintedAlert({"err", "both"})
              /\ cur.verdict = "Valid" <=> FirstHintedAlert({"succ"})
              /\ cur.verdict \in Verdicts

\* A page text with both kinds of hint, and an alert with an error hint.
C28_Witness ==
    /\ validator = "pepperdine" /\ Submitted
    /\ env.succ /\ env.err /\ env.alerts = <<"err">>
    /\ cur.verdict = "Valid" /\ output # cur.pre

\* The Colgate probe submitted the email and read the page.
ColgateClassified == validator = "colgate" /\ Submitted

\* C29 as stated: Invalid whenever a displayed error text holds a known
\* invalid-account hint, Valid only when the password field is visible and
\* no such text is displayed, Unknown in the remaining cases.
C29_AnyHintIsInvalid ==
    ColgateClassified =>
        cur.verdict = IF "hint" \in Range(env.errs) THEN "Invalid"
                      ELSE IF env.pw THEN "Valid"
                      ELSE "Unknown"

\* The first displayed, non-empty error text holds a known hint.
FirstErrorHasHint == env.errs # <<>> /\ Head(env.errs) = "hint"

\* C29 amended: the hint is looked for in the first displayed non-empty
\* error text only; when it is there the verdict is Invalid even with a
\* visible password field, otherwise Valid when the password field is
\* visible, otherwise Unknown.
C29_FirstHintBeforePassword ==
    ColgateClassified =>
        cur.verdict = IF FirstErrorHasHint THEN "Invalid"
                      ELSE IF env.pw THEN "Valid"
                      ELSE "Unknown"

\* The hint and the password field are both on the page: Invalid, no row.
C29_Witness ==
    /\ ColgateClassified
    /\ FirstErrorHasHint /\ env.pw
    /\ cur.verdict = "Invalid" /\ output = cur.pre

\* The key and the email that merge_verified reads from the i-th input row.
MergedName(i) == strip(files[i].full_name)

MergedEmail(i) == lower(strip(files[i].email))

\* The input rows that have a name and an email.
Eligible == {i \in 1..Len(files) : MergedName(i) # <<>> /\ MergedEmail(i) # <<>>}

\* The input rows of one name.
RowsOf(n) == {i \in Eligible : MergedName(i) = n}

\* C30: merge_verified writes exactly one row per distinct non-empty
\* (trimmed) full_name among the input rows that also have an email; its
\* email is a lower-cased email of that name with the maximal (pattern
\* rank, local-part length) score among the emails of the name, the first
\* encountered of those with that score.
C30_OneBestEmailPerName ==
    merged # <<>> =>
        LET out == Tail(merged)
        IN  /\ merged[1] = << <<"full_name">>, <<"email">> >>
            /\ Len(out) = Cardinality({MergedName(i) : i \in Eligible})
            /\ \A k, m \in 1..Len(out) : k # m => out[k][1] # out[m][1]
            /\ \A k \in 1..Len(out) :
                  \E i \in RowsOf(out[k][1]) :
                      /\ out[k][2] = MergedEmail(i)
                      /\ \A j \in RowsOf(out[k][1]) :
                            /\ ~ScoreLess(score(MergedEmail(i), out[k][1]),
                                          score(MergedEmail(j), out[k][1]))
                            /\ j < i => ScoreLess(score(MergedEmail(j), out[k][1]),
                                                  score(MergedEmail(i), out[k][1]))

\* Two names; for one of them two emails of equal score, the first kept
\* although the later one differs.
C30_Witness ==
    /\ merged # <<>> /\ Len(merged) = 3
    /\ \E i, j \in Eligible :
          /\ i < j /\ MergedName(i) = MergedName(j)
          /\ MergedEmail(i) # MergedEmail(j)
          /\ score(MergedEmail(i), MergedName(i)) = score(MergedEmail(j), MergedName(j))
          /\ \E k \in 2..Len(merged) :
                merged[k] = <<MergedName(i), MergedEmail(i)>>

====
